---- MODULE Spec2Model ----
(***************************************************************************)
(* CKD + Diabetes Food Analyzer (src/app.py): the USDA lookup functions,   *)
(* the nutrient aggregation, the graduated colour classification and the   *)
(* session meal log, as a state machine.                                   *)
(*                                                                         *)
(* Numbers: nutrient amounts and totals are modelled as integers.  The     *)
(* code computes in binary floating point; for integer totals and the      *)
(* limits of CKD_LIMITS the float comparison `percent < 60` agrees with    *)
(* the exact one, and sums of integers are exact.                          *)
(***************************************************************************)
EXTENDS Integers, Sequences, FiniteSets, TLC

VARIABLES
    meal_log,   \* st.session_state.meal_log: sequence of [foods, data]
    stage,      \* value of the "Select CKD Stage" selectbox
    diabetic,   \* value of the "Diabetic?" checkbox
    view,       \* what the last script run rendered in the main panel
    sidebar,    \* what the last script run rendered in the sidebar
    run,        \* the locals of the last script run (items, HTTP exchanges, all_data)
    call        \* one call of a pure function: its inputs and its result

vars == <<meal_log, stage, diabetic, view, sidebar, run, call>>

-----------------------------------------------------------------------------
(* Python values *)

\* None (a missing dict key read with .get, a JSON null) and the NaN that
\* pandas stores for it: no amount is negative, so -1 stands for both.
None == -1
NaN == None

\* {} : the empty dict
EmptyDict == <<>>

\* d.get(k, default)
Get(d, k, default) == IF k \in DOMAIN d THEN d[k] ELSE default

-----------------------------------------------------------------------------
(* Tables *)

NUTRIENT_IDS ==
    (1008 :> "Calories") @@ (1003 :> "Protein (g)") @@ (1004 :> "Total Fat (g)") @@
    (1005 :> "Carbohydrates (g)") @@ (1093 :> "Sodium (mg)") @@
    (1092 :> "Potassium (mg)") @@ (1091 :> "Phosphorus (mg)") @@ (1051 :> "Water (g)")

Stages == {"Stage 3", "Stage 4", "Stage 5"}

CKD_LIMITS ==
    ("Stage 3" :> (("Sodium (mg)" :> 2000) @@ ("Potassium (mg)" :> 3000) @@ ("Phosphorus (mg)" :> 1000))) @@
    ("Stage 4" :> (("Sodium (mg)" :> 1500) @@ ("Potassium (mg)" :> 2500) @@ ("Phosphorus (mg)" :> 800))) @@
    ("Stage 5" :> (("Sodium (mg)" :> 1500) @@ ("Potassium (mg)" :> 2000) @@ ("Phosphorus (mg)" :> 700)))

\* the nutrients summarize_nutrients totals, and the ones the handler colours
SummaryNutrients == {"Sodium (mg)", "Potassium (mg)", "Phosphorus (mg)", "Carbohydrates (g)"}
LimitNutrients == {"Sodium (mg)", "Potassium (mg)", "Phosphorus (mg)"}

-----------------------------------------------------------------------------
(* Graduated classification: the percent / color lines of the Analyze handler *)

\* percent = (total / max_val) * 100 if max_val else 0, compared with a bound:
\* percent < bound, in exact arithmetic (max_val >= 0).
percent_below(total, max_val, bound) ==
    IF max_val # 0 THEN total * 100 < bound * max_val ELSE 0 < bound

\* faulty variant: the green bucket closed at 60 percent
color_le60(total, max_val) ==
    IF percent_below(total, max_val, 60) \/ total * 100 = 60 * max_val THEN "green"
    ELSE IF percent_below(total, max_val, 100) THEN "yellow"
    ELSE "red"

\* faulty variant: the yellow bucket closed at 100 percent
color_le100(total, max_val) ==
    IF percent_below(total, max_val, 60) THEN "green"
    ELSE IF percent_below(total, max_val, 100) \/ total = max_val THEN "yellow"
    ELSE "red"

\* color = green if percent < 60 else yellow if percent < 100 else red
color(total, max_val) ==
    IF percent_below(total, max_val, 60) THEN "green"
    ELSE IF percent_below(total, max_val, 100) THEN "yellow"
    ELSE "red"

-----------------------------------------------------------------------------
(* The session before any script run, and the idle function call *)

NoView == [kind |-> "idle"]
NoSidebar == [shown |-> FALSE]
NoRun == [kind |-> "none"]
NoCall == [fn |-> "none"]

SessionInit ==
    /\ meal_log = <<>>
    /\ stage = "Stage 3"
    /\ diabetic = TRUE
    /\ view = NoView
    /\ sidebar = NoSidebar
    /\ run = NoRun

SessionUnchanged == UNCHANGED <<meal_log, stage, diabetic, view, sidebar, run>>

-----------------------------------------------------------------------------
(* SpecClassify: color applied to every total and every limit of the table *)

\* largest nutrient total drawn; the largest limit of the table is 3000
MaxTotal == 3100

ClassifyInit ==
    /\ SessionInit
    /\ call \in [fn : {"color"}, stage : Stages, nutrient : LimitNutrients,
                 total : 0..MaxTotal, ret : {"pending"}]

Classify ==
    /\ call.fn = "color"
    /\ call.ret = "pending"
    /\ call' = [call EXCEPT !.ret = color(call.total, CKD_LIMITS[call.stage][call.nutrient])]
    /\ SessionUnchanged

ClassifyNext == Classify

SpecClassify == ClassifyInit /\ [][ClassifyNext]_vars

ClassifyLimit == CKD_LIMITS[call.stage][call.nutrient]
Classified == call.fn = "color" /\ call.ret # "pending"

\* C1 (as stated): a total equal to the limit is "caution" (yellow), and only a
\* total strictly greater than the limit is "high" (red).
C1_AsStated ==
    Classified =>
        /\ (call.total = ClassifyLimit => call.ret = "yellow")
        /\ (call.ret = "red" <=> call.total > ClassifyLimit)

\* C1 (amended): a total equal to the limit is "high" (red); the verdict is
\* "high" exactly when the total is at least the limit, and "caution" exactly
\* when it is at least 0.6 of the limit and strictly below the limit.
C1_UpperBoundary ==
    Classified =>
        /\ (call.total = ClassifyLimit => call.ret = "red")
        /\ (call.ret = "red" <=> call.total >= ClassifyLimit)
        /\ (call.ret = "yellow" <=>
                (5 * call.total >= 3 * ClassifyLimit /\ call.total < ClassifyLimit))

C1_Witness == Classified /\ call.total = ClassifyLimit /\ call.ret = "red"

\* C2: the verdict is "safe" (green) exactly when the total is below 0.6 of the
\* limit (3/5: 5 v < 3 L); a total equal to 0.6 of the limit is "caution"; and
\* the verdict is one of the three.
C2_LowerBoundary ==
    Classified =>
        /\ (call.ret = "green" <=> 5 * call.total < 3 * ClassifyLimit)
        /\ (5 * call.total = 3 * ClassifyLimit => call.ret = "yellow")
        /\ call.ret \in {"green", "yellow", "red"}

C2_Witness ==
    Classified /\ call.total = 1800 /\ ClassifyLimit = 3000 /\ call.ret = "yellow"

-----------------------------------------------------------------------------
(* HTTP: what requests.get returns.  A response is its status code and its  *)
(* body; the body is a JSON object (res.json() returns it) or text that is  *)
(* no JSON (res.json() raises).  The two endpoints answer status 200 with a *)
(* JSON object of the documented shape; any other status may carry any     *)
(* body.                                                                    *)

HTTPStatus == {200, 201, 204, 404, 500}

Json(obj) == [kind |-> "json", obj |-> obj]
NotJson == [kind |-> "text", obj |-> EmptyDict]

Response(status, body) == [status_code |-> status, body |-> body]

\* the outcome of a Python call: a returned value, or an exception
Return(v) == [raised |-> FALSE, value |-> v]
Raise(v) == [raised |-> TRUE, value |-> v]

\* the provider's catalogue
Banana == [fdcId |-> 1, description |-> "Banana, raw"]
Milk == [fdcId |-> 2, description |-> "Milk, whole"]
Foods == {Banana, Milk}

Queries == {"banana", "milk"}

\* sequences over S of length at most n
SeqUpTo(S, n) == UNION {[1..k -> S] : k \in 0..n}

-----------------------------------------------------------------------------
(* search_foods *)

\* faulty variant: the body is parsed before the status is looked at
search_foods_parse_first(query, res) ==
    IF res.body.kind # "json" THEN Raise(<<>>)
    ELSE IF res.status_code = 200 THEN Return(Get(res.body.obj, "foods", <<>>))
    ELSE Return(<<>>)

\* return res.json().get("foods", []) if res.status_code == 200 else []
search_foods(query, res) ==
    IF res.status_code = 200
    THEN IF res.body.kind = "json"
         THEN Return(Get(res.body.obj, "foods", <<>>))
         ELSE Raise(<<>>)
    ELSE Return(<<>>)

-----------------------------------------------------------------------------
(* SpecSearch: search_foods applied to every answer of the search endpoint *)

\* longest candidate list the search endpoint answers with
MaxFoods == 2

SearchBodies ==
    {NotJson, Json(EmptyDict)} \cup {Json([foods |-> s]) : s \in SeqUpTo(Foods, MaxFoods)}

SearchResponses ==
    {r \in {Response(s, b) : s \in HTTPStatus, b \in SearchBodies} :
        r.status_code = 200 => r.body.kind = "json"}

SearchInit ==
    /\ SessionInit
    /\ call \in [fn : {"search_foods"}, query : Queries, res : SearchResponses,
                 done : {FALSE}, ret : {Return(<<>>)}]

Search ==
    /\ call.fn = "search_foods"
    /\ ~call.done
    /\ call' = [call EXCEPT !.done = TRUE, !.ret = search_foods(call.query, call.res)]
    /\ SessionUnchanged

SearchNext == Search

SpecSearch == SearchInit /\ [][SearchNext]_vars

Success(status) == status \in 200..299
Searched == call.fn = "search_foods" /\ call.done
ProviderFoods == IF call.res.body.kind = "json" /\ "foods" \in DOMAIN call.res.body.obj
                 THEN call.res.body.obj.foods ELSE <<>>

\* C3: on a non-success (non-2xx) status search_foods returns the empty list
\* and raises nothing; a non-empty list is returned only on a success status,
\* and then it is the provider's "foods" list; and the result for a provider
\* error is the result for a no-match answer.
C3_SearchDegrades ==
    Searched =>
        /\ (~Success(call.res.status_code) => call.ret = Return(<<>>))
        /\ (call.ret.value # <<>> =>
                Success(call.res.status_code) /\ call.ret.value = ProviderFoods)
        /\ (call.res.status_code = 200 => call.ret = Return(ProviderFoods))
        /\ (~Success(call.res.status_code) =>
                call.ret = search_foods(call.query, Response(200, Json([foods |-> <<>>]))))

C3_Witness ==
    /\ Searched
    /\ call.res.status_code = 500
    /\ call.res.body = NotJson
    /\ call.ret = Return(<<>>)

-----------------------------------------------------------------------------
(* extract_nutrients *)

\* f"{portion} {unit}"
FormatPortion(portion, unit) == ToString(portion) \o " " \o unit

\* portion = data.get("servingSize"); unit = data.get("servingSizeUnit");
\* `portion and unit`: both there (not None) and truthy (a non-zero number,
\* a non-empty string)
portion_and_unit(data) ==
    /\ "servingSize" \in DOMAIN data /\ data.servingSize # 0
    /\ "servingSizeUnit" \in DOMAIN data /\ data.servingSizeUnit # ""

\* {"Portion Size": f"{portion} {unit}" if portion and unit else "100 g (default)"}
portion_result(data) ==
    "Portion Size" :> (IF portion_and_unit(data)
                       THEN FormatPortion(data.servingSize, data.servingSizeUnit)
                       ELSE "100 g (default)")

\* for n in nutrients: ... result[NUTRIENT_IDS[nutrient["id"]]] = n.get("amount")
RECURSIVE nutrient_loop(_, _)
nutrient_loop(nutrients, result) ==
    IF nutrients = <<>> THEN result
    ELSE LET n == Head(nutrients)
             nutrient == Get(n, "nutrient", EmptyDict)
             id == Get(nutrient, "id", None)
         IN  nutrient_loop(Tail(nutrients),
                 IF id \in DOMAIN NUTRIENT_IDS
                 THEN (NUTRIENT_IDS[id] :> Get(n, "amount", None)) @@ result
                 ELSE result)

\* faulty variant: entries without an amount are skipped
RECURSIVE nutrient_loop_skip_null(_, _)
nutrient_loop_skip_null(nutrients, result) ==
    IF nutrients = <<>> THEN result
    ELSE LET n == Head(nutrients)
             nutrient == Get(n, "nutrient", EmptyDict)
             id == Get(nutrient, "id", None)
         IN  nutrient_loop_skip_null(Tail(nutrients),
                 IF id \in DOMAIN NUTRIENT_IDS /\ "amount" \in DOMAIN n
                 THEN (NUTRIENT_IDS[id] :> n.amount) @@ result
                 ELSE result)

extract_nutrients_skip_null(fdc_id, res) ==
    IF res.status_code # 200 THEN Return(EmptyDict)
    ELSE IF res.body.kind # "json" THEN Raise(EmptyDict)
    ELSE LET data == res.body.obj
         IN  Return(nutrient_loop_skip_null(Get(data, "foodNutrients", <<>>),
                                            portion_result(data)))

\* faulty variant: only the statuses from 400 on count as failures
extract_nutrients_below_400(fdc_id, res) ==
    IF res.status_code >= 400 THEN Return(EmptyDict)
    ELSE IF res.body.kind # "json" THEN Raise(EmptyDict)
    ELSE LET data == res.body.obj
         IN  Return(nutrient_loop(Get(data, "foodNutrients", <<>>), portion_result(data)))

\* if res.status_code != 200: return {} ... return result
extract_nutrients(fdc_id, res) ==
    IF res.status_code # 200 THEN Return(EmptyDict)
    ELSE IF res.body.kind # "json" THEN Raise(EmptyDict)
    ELSE LET data == res.body.obj
         IN  Return(nutrient_loop(Get(data, "foodNutrients", <<>>), portion_result(data)))

-----------------------------------------------------------------------------
(* SpecExtract: extract_nutrients applied to every answer of the detail endpoint *)

\* longest nutrient list the detail endpoint answers with
MaxNutrients == 2

\* one entry of "foodNutrients": known and unknown identifiers, with and
\* without an amount, with and without a nutrient or an identifier
NutrientEntries ==
    {[nutrient |-> [id |-> i], amount |-> a] : i \in {1008, 1003, 1092, 9999}, a \in {89, 11}}
    \cup {[nutrient |-> [id |-> 1008]], [amount |-> 5], [nutrient |-> EmptyDict, amount |-> 5]}

Servings ==
    {EmptyDict} \cup
    {("servingSize" :> p) : p \in {0, 100}} \cup
    {("servingSizeUnit" :> u) : u \in {"", "g"}} \cup
    {("servingSize" :> p) @@ ("servingSizeUnit" :> u) : p \in {0, 100}, u \in {"", "g"}}

DetailBodies ==
    {Json(s) : s \in Servings} \cup
    {Json(("foodNutrients" :> ns) @@ s) :
        ns \in SeqUpTo(NutrientEntries, MaxNutrients), s \in Servings}

BananaDetail ==
    Json([foodNutrients |-> << [nutrient |-> [id |-> 1008], amount |-> 89],
                               [nutrient |-> [id |-> 1003], amount |-> 11] >>])

DetailResponses ==
    {Response(200, b) : b \in DetailBodies} \cup
    {Response(s, b) : s \in HTTPStatus \ {200}, b \in {NotJson, BananaDetail}}

ExtractInit ==
    /\ SessionInit
    /\ call \in [fn : {"extract_nutrients"}, fdc_id : {Banana.fdcId}, res : DetailResponses,
                 done : {FALSE}, ret : {Return(EmptyDict)}]

Extract ==
    /\ call.fn = "extract_nutrients"
    /\ ~call.done
    /\ call' = [call EXCEPT !.done = TRUE, !.ret = extract_nutrients(call.fdc_id, call.res)]
    /\ SessionUnchanged

ExtractNext == Extract

SpecExtract == ExtractInit /\ [][ExtractNext]_vars

Labels == {NUTRIENT_IDS[i] : i \in DOMAIN NUTRIENT_IDS}
Extracted == call.fn = "extract_nutrients" /\ call.done /\ call.res.status_code = 200
ProviderData == call.res.body.obj
ProviderNutrients == Get(ProviderData, "foodNutrients", <<>>)

\* entry i carries an identifier of the table that maps to label
EntryFor(i, label) ==
    /\ "nutrient" \in DOMAIN ProviderNutrients[i]
    /\ "id" \in DOMAIN ProviderNutrients[i].nutrient
    /\ ProviderNutrients[i].nutrient.id \in DOMAIN NUTRIENT_IDS
    /\ NUTRIENT_IDS[ProviderNutrients[i].nutrient.id] = label

EntryAmount(i) ==
    IF "amount" \in DOMAIN ProviderNutrients[i] THEN ProviderNutrients[i].amount ELSE None

\* the nutrient part of C6: the record has a key for a label exactly when the
\* list has an entry with an identifier of the table mapping to it, its value
\* is such an entry's amount, and it has no other key but the portion size
NutrientKeys ==
    /\ ~call.ret.raised
    /\ DOMAIN call.ret.value \subseteq Labels \cup {"Portion Size"}
    /\ "Portion Size" \in DOMAIN call.ret.value
    /\ \A label \in Labels :
        /\ label \in DOMAIN call.ret.value <=>
               \E i \in DOMAIN ProviderNutrients : EntryFor(i, label)
        /\ label \in DOMAIN call.ret.value =>
               \E i \in DOMAIN ProviderNutrients :
                   EntryFor(i, label) /\ call.ret.value[label] = EntryAmount(i)

ServingPresent ==
    "servingSize" \in DOMAIN ProviderData /\ "servingSizeUnit" \in DOMAIN ProviderData

\* C6 (as stated): nutrient keys as above, and the portion descriptor is the
\* provider's serving size and unit when both are present, otherwise the
\* 100 g default.
C6_AsStated ==
    Extracted =>
        /\ NutrientKeys
        /\ call.ret.value["Portion Size"] =
               IF ServingPresent
               THEN FormatPortion(ProviderData.servingSize, ProviderData.servingSizeUnit)
               ELSE "100 g (default)"

\* C6 (amended): nutrient keys as above, and the portion descriptor is the
\* provider's serving size and unit when both are present and the size is not
\* zero and the unit not empty, otherwise the 100 g default.
C6_Extraction ==
    Extracted =>
        /\ NutrientKeys
        /\ call.ret.value["Portion Size"] =
               IF /\ ServingPresent
                  /\ ProviderData.servingSize # 0
                  /\ ProviderData.servingSizeUnit # ""
               THEN FormatPortion(ProviderData.servingSize, ProviderData.servingSizeUnit)
               ELSE "100 g (default)"

\* the banana example, and a zero serving size answered with the default
C6_Witness ==
    /\ Extracted
    /\ ProviderNutrients = << [nutrient |-> [id |-> 1008], amount |-> 89],
                              [nutrient |-> [id |-> 9999], amount |-> 11] >>
    /\ ServingPresent /\ ProviderData.servingSize = 0
    /\ DOMAIN call.ret.value = {"Portion Size", "Calories"}
    /\ call.ret.value["Calories"] = 89
    /\ call.ret.value["Portion Size"] = "100 g (default)"

-----------------------------------------------------------------------------
(* pandas: a DataFrame is its columns and its rows, every row holding every *)
(* column, NaN where the dict it was built from has no such key.  TLC       *)
(* compares values of one kind only, so the NaN of a text column is written *)
(* as the string "NaN" and the NaN of a nutrient column as NaN.             *)

TextColumns == {"Food", "Error", "Portion Size"}
Fill(c) == IF c \in TextColumns THEN "NaN" ELSE NaN

\* pd.DataFrame(all_data), all_data a list of dicts
DataFrame(all_data) ==
    LET columns == UNION {DOMAIN all_data[i] : i \in DOMAIN all_data}
    IN  [columns |-> columns,
         rows |-> [i \in DOMAIN all_data |->
                      [c \in columns |-> Get(all_data[i], c, Fill(c))]]]

\* df.empty
empty(df) == Len(df.rows) = 0 \/ df.columns = {}

\* pd.concat([a, b], ignore_index=True): the rows of a, then those of b, over
\* the union of the columns
concat2(a, b) ==
    LET columns == a.columns \cup b.columns
        fill(row) == [c \in columns |-> Get(row, c, Fill(c))]
    IN  [columns |-> columns,
         rows |-> [i \in 1..Len(a.rows) |-> fill(a.rows[i])] \o
                  [i \in 1..Len(b.rows) |-> fill(b.rows[i])]]

\* pd.concat(dfs, ignore_index=True), dfs not empty
RECURSIVE concat(_)
concat(dfs) ==
    IF Len(dfs) = 1 THEN dfs[1]
    ELSE concat2(concat(SubSeq(dfs, 1, Len(dfs) - 1)), dfs[Len(dfs)])

\* df[nutrient].sum(skipna=True) over the first k rows
RECURSIVE column_sum(_, _, _)
column_sum(df, nutrient, k) ==
    IF k = 0 THEN 0
    ELSE column_sum(df, nutrient, k - 1) +
         (IF df.rows[k][nutrient] = NaN THEN 0 ELSE df.rows[k][nutrient])

\* faulty variant: df[nutrient].sum(skipna=False): NaN as soon as one cell is NaN
summarize_nutrients_keep_na(df) ==
    [nutrient \in SummaryNutrients |->
        IF nutrient \in df.columns
        THEN IF \E k \in 1..Len(df.rows) : df.rows[k][nutrient] = NaN
             THEN NaN
             ELSE column_sum(df, nutrient, Len(df.rows))
        ELSE 0]

\* faulty variant: the column is summed up to its first NaN only
RECURSIVE column_sum_until_nan(_, _, _)
column_sum_until_nan(df, nutrient, k) ==
    IF k > Len(df.rows) \/ df.rows[k][nutrient] = NaN THEN 0
    ELSE df.rows[k][nutrient] + column_sum_until_nan(df, nutrient, k + 1)

summarize_nutrients_until_nan(df) ==
    [nutrient \in SummaryNutrients |->
        IF nutrient \in df.columns THEN column_sum_until_nan(df, nutrient, 1) ELSE 0]

\* totals[nutrient] = df[nutrient].sum(skipna=True) if nutrient in df.columns else 0
summarize_nutrients(df) ==
    [nutrient \in SummaryNutrients |->
        IF nutrient \in df.columns THEN column_sum(df, nutrient, Len(df.rows)) ELSE 0]

-----------------------------------------------------------------------------
(* SpecSummarize: summarize_nutrients applied to every list of rows, and to *)
(* the same rows in another order                                           *)

\* longest list of rows summarized
MaxRows == 3

\* rows as get_food_info builds them: a not-found entry, rows with every
\* label, with a label missing, with a null amount
SampleRows ==
    { ("Food" :> "banana") @@ ("Error" :> "Not found"),
      ("Food" :> "Banana, raw") @@ ("Portion Size" :> "100 g (default)") @@
          ("Potassium (mg)" :> 358) @@ ("Carbohydrates (g)" :> 23),
      ("Food" :> "Milk, whole") @@ ("Portion Size" :> "240 ml") @@
          ("Sodium (mg)" :> 105) @@ ("Potassium (mg)" :> None) @@
          ("Carbohydrates (g)" :> 12),
      ("Food" :> "Rice, white") @@ ("Portion Size" :> "100 g (default)") @@
          ("Sodium (mg)" :> 1) @@ ("Potassium (mg)" :> 35) @@
          ("Phosphorus (mg)" :> 43) @@ ("Carbohydrates (g)" :> 28),
      ("Food" :> "Water") @@ ("Portion Size" :> "100 g (default)") @@
          ("Sodium (mg)" :> None) @@ ("Water (g)" :> 100) }

\* the orders of n rows
Orders(n) == {p \in [1..n -> 1..n] : \A i, j \in 1..n : p[i] = p[j] => i = j}

SummarizeInit ==
    /\ SessionInit
    /\ call \in [fn : {"summarize_nutrients"}, all_data : SeqUpTo(SampleRows, MaxRows),
                 done : {FALSE}, reordered : {FALSE}, first : {EmptyDict}, ret : {EmptyDict}]

Summarize ==
    /\ call.fn = "summarize_nutrients"
    /\ ~call.done
    /\ call' = [call EXCEPT !.done = TRUE,
                            !.ret = summarize_nutrients(DataFrame(call.all_data))]
    /\ SessionUnchanged

\* the same rows handed over in another order, and summarized again
Reorder ==
    /\ call.fn = "summarize_nutrients"
    /\ call.done /\ ~call.reordered
    /\ \E p \in Orders(Len(call.all_data)) :
        LET permuted == [i \in 1..Len(call.all_data) |-> call.all_data[p[i]]]
        IN  call' = [call EXCEPT !.reordered = TRUE,
                                 !.all_data = permuted,
                                 !.first = call.ret,
                                 !.ret = summarize_nutrients(DataFrame(permuted))]
    /\ SessionUnchanged

SummarizeNext == Summarize \/ Reorder

SpecSummarize == SummarizeInit /\ [][SummarizeNext]_vars

Summarized == call.fn = "summarize_nutrients" /\ call.done

\* the sum of the non-null amounts of a label over a list of dict rows
RECURSIVE AmountSum(_, _)
AmountSum(rows, label) ==
    IF rows = <<>> THEN 0
    ELSE (IF label \in DOMAIN Head(rows) /\ Head(rows)[label] # None
          THEN Head(rows)[label] ELSE 0)
         + AmountSum(Tail(rows), label)

\* C7: summarize_nutrients gives every nutrient of interest a total, the sum
\* of the non-null amounts of that label over all rows: zero when the label is
\* absent from every row or there are no rows.
C7_Totals ==
    Summarized =>
        /\ DOMAIN call.ret = SummaryNutrients
        /\ \A label \in SummaryNutrients :
            /\ call.ret[label] = AmountSum(call.all_data, label)
            /\ (\A i \in DOMAIN call.all_data : label \notin DOMAIN call.all_data[i])
                   => call.ret[label] = 0

\* rows with a null amount and with the label missing, a label absent from
\* every row, summed without error
C7_Witness ==
    /\ Summarized
    /\ Len(call.all_data) = 3
    /\ \E i \in 1..3 : "Potassium (mg)" \notin DOMAIN call.all_data[i]
    /\ \E i \in 1..3 : /\ "Potassium (mg)" \in DOMAIN call.all_data[i]
                       /\ call.all_data[i]["Potassium (mg)"] = None
    /\ \A i \in 1..3 : "Phosphorus (mg)" \notin DOMAIN call.all_data[i]
    /\ call.ret["Potassium (mg)"] = 358
    /\ call.ret["Phosphorus (mg)"] = 0

-----------------------------------------------------------------------------
(* get_food_info.  search_res is the search endpoint's answer to the query, *)
(* detail_res the detail endpoint's answers to the requests made, in order. *)

\* the marker of a query without candidates (the source prefixes a cross mark)
NotFound == "Not found"

\* for match in matches: data = extract_nutrients(match["fdcId"]); if data: ...
RECURSIVE match_loop(_, _, _)
match_loop(matches, detail_res, results) ==
    IF matches = <<>> THEN Return(results)
    ELSE LET match == Head(matches)
             data == extract_nutrients(match.fdcId, Head(detail_res))
         IN  IF data.raised THEN Raise(results)
             ELSE match_loop(Tail(matches), Tail(detail_res),
                      IF DOMAIN data.value # {}
                      THEN Append(results, data.value @@ ("Food" :> match.description))
                      ELSE results)

\* faulty variant: a query without candidates yields no entry
get_food_info_silent(query, search_res, detail_res) ==
    LET matches == search_foods(query, search_res)
    IN  IF matches.raised THEN Raise(<<>>)
        ELSE match_loop(matches.value, detail_res, <<>>)

\* matches = search_foods(query); if not matches: return [{Food, Error}] ...
get_food_info(query, search_res, detail_res) ==
    LET matches == search_foods(query, search_res)
    IN  IF matches.raised THEN Raise(<<>>)
        ELSE IF matches.value = <<>>
             THEN Return(<< ("Food" :> query) @@ ("Error" :> NotFound) >>)
             ELSE match_loop(matches.value, detail_res, <<>>)

-----------------------------------------------------------------------------
(* The script run: widgets, the Analyze handler, the sidebar *)

\* f.strip() on the pieces of the text input
strip(f) ==
    CASE f = " " -> ""
      [] f = " milk" -> "milk"
      [] OTHER -> f

\* food_input.split(","): what the user typed, as its comma-separated pieces
FoodInputs ==
    { <<"">>, <<"banana">>, <<" milk", " ", "banana">> }

\* items = [f.strip() for f in food_input.split(",") if f.strip()]
Items(food_input) ==
    SelectSeq([i \in DOMAIN food_input |-> strip(food_input[i])], LAMBDA f : f # "")

\* the provider's answers during a session
Catalogue(query) == IF query = "banana" THEN Banana ELSE Milk

DetailBody(food) ==
    IF food = Banana
    THEN Json([foodNutrients |-> << [nutrient |-> [id |-> 1008], amount |-> 89],
                                    [nutrient |-> [id |-> 1092], amount |-> 1800],
                                    [nutrient |-> [id |-> 1005], amount |-> 23] >>])
    ELSE Json([foodNutrients |-> << [nutrient |-> [id |-> 1093], amount |-> 105],
                                    [nutrient |-> [id |-> 1092]],
                                    [nutrient |-> [id |-> 1091], amount |-> 1000],
                                    [nutrient |-> [id |-> 1005], amount |-> 12] >>,
               servingSize |-> 240, servingSizeUnit |-> "ml"])

SessionSearch(query) ==
    { Response(500, NotJson),
      Response(200, Json([foods |-> <<>>])),
      Response(200, Json([foods |-> <<Catalogue(query)>>])) }

SessionDetail(food) ==
    { Response(404, NotJson), Response(201, DetailBody(food)), Response(200, DetailBody(food)) }

\* the HTTP exchanges of one item: the answer to its search, and one answer
\* for each detail request its candidates cause
ItemExchanges(query) ==
    UNION { {[search |-> s, details |-> d] :
                d \in [1..Len(search_foods(query, s).value) -> SessionDetail(Catalogue(query))]} :
            s \in SessionSearch(query) }

RECURSIVE Exchanges(_)
Exchanges(items) ==
    IF items = <<>> THEN {<<>>}
    ELSE {<<h>> \o t : h \in ItemExchanges(Head(items)), t \in Exchanges(Tail(items))}

\* for item in items: all_data.extend(get_food_info(item))
RECURSIVE extend_loop(_, _, _)
extend_loop(items, exch, all_data) ==
    IF items = <<>> THEN Return(all_data)
    ELSE LET info == get_food_info(Head(items), Head(exch).search, Head(exch).details)
         IN  IF info.raised THEN Raise(all_data)
             ELSE extend_loop(Tail(items), Tail(exch), all_data \o info.value)

\* what the run did for one item: the calls made and what they returned
item_call(query, exch) ==
    LET matches == search_foods(query, exch.search)
    IN  [query |-> query,
         search |-> exch.search,
         matches |-> matches,
         details |-> [j \in DOMAIN exch.details |->
                         [match |-> matches.value[j],
                          res |-> exch.details[j],
                          ret |-> extract_nutrients(matches.value[j].fdcId, exch.details[j])]],
         info |-> get_food_info(query, exch.search, exch.details)]

\* "Nutrient Load (Current Meal)": totals, one colour for each limit, and the
\* carbohydrate line when the checkbox is set
MealView(df) ==
    LET totals == summarize_nutrients(df)
        limits == CKD_LIMITS[stage]
    IN  [kind |-> "meal",
         totals |-> totals,
         colors |-> [nutrient \in LimitNutrients |-> color(totals[nutrient], limits[nutrient])],
         carbs |-> IF diabetic THEN totals["Carbohydrates (g)"] ELSE None]

\* number of meals the sidebar lists
SidebarMeals == 10

\* meal_log[-10:][::-1], the "foods" of each
sidebar_entries(log) ==
    LET n == IF Len(log) < SidebarMeals THEN Len(log) ELSE SidebarMeals
    IN  [i \in 1..n |-> log[Len(log) + 1 - i].foods]

\* faulty variant: the daily totals are taken from the latest meal only
full_df_latest(log) == log[Len(log)].data

\* full_df = pd.concat([m["data"] for m in meal_log], ignore_index=True)
full_df(log) == concat([i \in DOMAIN log |-> log[i].data])

\* the sidebar of a run that finds `log` in the session, `message` being
\* what st.sidebar.success shows
Sidebar(log, message) ==
    IF log = <<>> THEN NoSidebar
    ELSE [shown |-> TRUE,
          entries |-> sidebar_entries(log),
          full_summary |-> summarize_nutrients(full_df(log)),
          message |-> message]

\* largest number of meals logged
MaxLog == 2

\* faulty variant: the new meal is put in front
log_append_front(log, batch) == <<batch>> \o log

\* st.session_state.meal_log.append({...}); the timestamp, which only labels
\* the sidebar entry, is left out
log_append(log, batch) == Append(log, batch)

\* the "Analyze" button
Analyze(food_input, exch) ==
    LET items == Items(food_input)
        loop == extend_loop(items, exch, <<>>)
        df == DataFrame(loop.value)
        log == IF ~loop.raised /\ ~empty(df)
               THEN log_append(meal_log, [foods |-> food_input, data |-> df])
               ELSE meal_log
    IN  /\ Len(meal_log) < MaxLog
        /\ meal_log' = log
        /\ view' = IF loop.raised THEN [kind |-> "exception"]
                   ELSE IF empty(df) THEN [kind |-> "error"]
                   ELSE MealView(df)
        /\ sidebar' = IF loop.raised THEN NoSidebar ELSE Sidebar(log, "")
        /\ run' = [kind |-> "analyze",
                   food_input |-> food_input,
                   items |-> items,
                   calls |-> [i \in DOMAIN items |-> item_call(items[i], exch[i])],
                   all_data |-> loop.value,
                   raised |-> loop.raised]
        /\ UNCHANGED <<stage, diabetic, call>>

\* faulty variant: the button reports the log cleared and leaves it as it is
ClearLogKeeps ==
    /\ sidebar.shown
    /\ meal_log' = meal_log
    /\ sidebar' = Sidebar(meal_log, IF meal_log # <<>> THEN "Log cleared." ELSE "")
    /\ view' = NoView
    /\ run' = [kind |-> "clear"]
    /\ UNCHANGED <<stage, diabetic, call>>

\* the "Clear Log" button, there when the last run drew the sidebar: the run
\* draws the sidebar from the log it finds, then empties the log
ClearLog ==
    /\ sidebar.shown
    /\ meal_log' = <<>>
    /\ sidebar' = Sidebar(meal_log, IF meal_log # <<>> THEN "Log cleared." ELSE "")
    /\ view' = NoView
    /\ run' = [kind |-> "clear"]
    /\ UNCHANGED <<stage, diabetic, call>>

\* the "Download Full Day Log" button: a run that changes nothing stored
DownloadFullDayLog ==
    /\ sidebar.shown
    /\ sidebar' = Sidebar(meal_log, "")
    /\ view' = NoView
    /\ run' = [kind |-> "rerun"]
    /\ UNCHANGED <<meal_log, stage, diabetic, call>>

\* the stage selectbox
SelectStage(s) ==
    /\ s # stage
    /\ stage' = s
    /\ sidebar' = Sidebar(meal_log, "")
    /\ view' = NoView
    /\ run' = [kind |-> "rerun"]
    /\ UNCHANGED <<meal_log, diabetic, call>>

\* the "Diabetic?" checkbox
ToggleDiabetic ==
    /\ diabetic' = ~diabetic
    /\ sidebar' = Sidebar(meal_log, "")
    /\ view' = NoView
    /\ run' = [kind |-> "rerun"]
    /\ UNCHANGED <<meal_log, stage, call>>

Init ==
    /\ SessionInit
    /\ call = NoCall

Next ==
    \/ \E food_input \in FoodInputs : \E exch \in Exchanges(Items(food_input)) :
           Analyze(food_input, exch)
    \/ ClearLog
    \/ DownloadFullDayLog
    \/ \E s \in Stages : SelectStage(s)
    \/ ToggleDiabetic

Spec == Init /\ [][Next]_vars

-----------------------------------------------------------------------------
(* Claims about a session *)

Analyzed == run.kind = "analyze"

\* the detail requests of the last Analyze run, as <<item, request>> pairs
DetailCalls ==
    {<<i, j>> \in (1..3) \X (1..3) :
        Analyzed /\ i \in DOMAIN run.calls /\ j \in DOMAIN run.calls[i].details}

DetailOf(c) == run.calls[c[1]].details[c[2]]

\* the detail requests of item i that returned a non-empty record
Fetched(i) == {j \in DOMAIN run.calls[i].details :
                  DOMAIN run.calls[i].details[j].ret.value # {}}

\* the rows each item should contribute: one for a query without candidates,
\* else one for each non-empty record
RECURSIVE ExpectedRows(_)
ExpectedRows(i) ==
    IF i = 0 THEN 0
    ELSE ExpectedRows(i - 1) +
         (IF run.calls[i].matches.value = <<>> THEN 1 ELSE Cardinality(Fetched(i)))

\* what C4 says of rows: an empty record gives no row of that candidate, each
\* item has as many rows as non-empty records, and the rows handed to the
\* totals (and logged) are those and the not-found entries
EmptyRecordNoRow ==
    /\ \A c \in DetailCalls :
        DOMAIN DetailOf(c).ret.value = {} =>
            \A k \in DOMAIN run.calls[c[1]].info.value :
                run.calls[c[1]].info.value[k]["Food"] # DetailOf(c).match.description
    /\ \A i \in DOMAIN run.calls :
        run.calls[i].matches.value # <<>> =>
            Len(run.calls[i].info.value) = Cardinality(Fetched(i))
    /\ Len(run.all_data) = ExpectedRows(Len(run.calls))
    /\ run.all_data # <<>> =>
        /\ meal_log # <<>>
        /\ Len(meal_log[Len(meal_log)].data.rows) = Len(run.all_data)

DataRows(rows) == SelectSeq(rows, LAMBDA r : "Error" \notin DOMAIN r)

\* the sum of the non-NaN cells of a label over the first k rows of a
\* DataFrame that are no not-found entries
RECURSIVE FrameDataSum(_, _, _)
FrameDataSum(df, label, k) ==
    IF k = 0 THEN 0
    ELSE FrameDataSum(df, label, k - 1) +
         (IF \/ ("Error" \in df.columns /\ df.rows[k]["Error"] # "NaN")
             \/ label \notin df.columns
          THEN 0
          ELSE IF df.rows[k][label] = NaN THEN 0 ELSE df.rows[k][label])

RECURSIVE LogDataSum(_, _)
LogDataSum(log, label) ==
    IF log = <<>> THEN 0
    ELSE FrameDataSum(Head(log).data, label, Len(Head(log).data.rows))
         + LogDataSum(Tail(log), label)

\* C5: a query whose search returned no candidates gives exactly one entry,
\* named by the query, with the error marker and no nutrient amount; the entry
\* adds nothing to a total of the current meal or of the whole log.
C5_NotFound ==
    Analyzed =>
        /\ \A i \in DOMAIN run.calls :
            run.calls[i].matches.value = <<>> =>
                /\ ~run.calls[i].info.raised
                /\ Len(run.calls[i].info.value) = 1
                /\ DOMAIN run.calls[i].info.value[1] = {"Food", "Error"}
                /\ run.calls[i].info.value[1]["Food"] = run.items[i]
                /\ run.calls[i].info.value[1]["Error"] = NotFound
        /\ view.kind = "meal" =>
            \A label \in SummaryNutrients :
                view.totals[label] = AmountSum(DataRows(run.all_data), label)
        /\ meal_log # <<>> =>
            \A label \in SummaryNutrients :
                sidebar.full_summary[label] = LogDataSum(meal_log, label)

\* milk's search answered 500, banana was found: two rows, milk's the entry
\* with the marker, and the totals are banana's
C5_Witness ==
    /\ Analyzed
    /\ run.items = <<"milk", "banana">>
    /\ run.calls[1].search.status_code = 500
    /\ run.calls[1].info.value = << ("Food" :> "milk") @@ ("Error" :> NotFound) >>
    /\ Len(run.all_data) = 2
    /\ view.kind = "meal"
    /\ view.totals["Potassium (mg)"] = 1800
    /\ Len(meal_log) = 2
    /\ sidebar.full_summary["Potassium (mg)"] = 3600

\* C9: the log starts empty; an Analyze run that produced rows appends one
\* batch, of those rows, behind the earlier batches, which stay as they are;
\* an Analyze run without rows leaves the log as it is; Clear Log empties it;
\* no other run changes it.
C9_AppendOnly ==
    /\ meal_log = <<>>
    /\ [][ /\ (run'.kind = "analyze" /\ run'.all_data # <<>>) =>
               /\ Len(meal_log') = Len(meal_log) + 1
               /\ SubSeq(meal_log', 1, Len(meal_log)) = meal_log
               /\ meal_log'[Len(meal_log')] =
                      [foods |-> run'.food_input, data |-> DataFrame(run'.all_data)]
           /\ (run'.kind = "analyze" /\ run'.all_data = <<>>) => meal_log' = meal_log
           /\ run'.kind = "clear" => meal_log' = <<>>
           /\ run'.kind \notin {"analyze", "clear"} => meal_log' = meal_log
         ]_vars

\* a second batch behind a first, different one
C9_Witness ==
    /\ Analyzed
    /\ Len(meal_log) = 2
    /\ meal_log[1].foods = <<"banana">>
    /\ meal_log[2].foods = <<" milk", " ", "banana">>
    /\ Len(meal_log[2].data.rows) = 2

\* the sum over the batches of the log of each batch's own meal total
RECURSIVE MealTotalsSum(_, _)
MealTotalsSum(log, label) ==
    IF log = <<>> THEN 0
    ELSE summarize_nutrients(Head(log).data)[label] + MealTotalsSum(Tail(log), label)

\* C10: whenever the log is not empty, the sidebar shows for each nutrient the
\* sum of the meal totals of the batches now in the log.
C10_DailyTotals ==
    meal_log # <<>> =>
        /\ sidebar.shown
        /\ \A label \in SummaryNutrients :
            sidebar.full_summary[label] = MealTotalsSum(meal_log, label)

\* two meals in the log, different totals, the sidebar showing their sum
C10_Witness ==
    /\ Len(meal_log) = 2
    /\ summarize_nutrients(meal_log[1].data)["Phosphorus (mg)"] = 0
    /\ summarize_nutrients(meal_log[2].data)["Phosphorus (mg)"] = 1000
    /\ sidebar.shown
    /\ sidebar.full_summary["Phosphorus (mg)"] = 1000
    /\ sidebar.full_summary["Potassium (mg)"] = 3600

====
